---- MODULE Spec2Model ----
(***************************************************************************)
(* Model of the marker / frequency-count pass of                           *)
(*   champion_code.py                        (run_full_benchmark)          *)
(*   benchmark_update_filters_and_markers.py (run_benchmark)               *)
(*                                                                         *)
(* Python values are tagged records, strings are sequences of one-char     *)
(* strings, floats are fixed-point numbers w + f/FracUnits (f in           *)
(* 0..FracUnits-1) or one of inf, -inf, nan.                               *)
(***************************************************************************)
EXTENDS Integers, Sequences, FiniteSets, TLC

VARIABLES
    mode,                 \* which entry point this behaviour exercises
    pc,                   \* position in the entry point
    config,               \* BENCHMARK_CONFIG as read by run_full_benchmark
    table,                \* the ordered result of cursor.execute(sql_query)
    cur,                  \* number of rows the cursor has handed out
    rows,                 \* rows fetched and not yet given to process_row
    fetch_calls,          \* fetch calls issued to the cursor
    markers,              \* markers list of run_full_benchmark
    source_counts,
    project_type_counts,
    country_counts,
    total_rows_fetched,
    bmarkers,             \* markers list of run_benchmark
    report,               \* the printed results, or NoReport
    filters,              \* argument of build_filter_query
    query,                \* result of build_filter_query
    emis,                 \* arguments of _radius
    rad,                  \* results of the two _radius functions
    exc,                  \* the exception that left the pass, or "none"
    validation            \* what run_and_validate.py made of the run

vars == <<mode, pc, config, table, cur, rows, fetch_calls, markers,
          source_counts, project_type_counts, country_counts,
          total_rows_fetched, bmarkers, report, filters, query, emis, rad,
          exc, validation>>

(***************************************************************************)
(* Bounds of the model.                                                    *)
(***************************************************************************)
\* grid points per 1e-4 of a degree: the resolution of random.random()
JitterBound == 1
\* longest query result
MaxRows == 2
\* largest batch size tried
MaxBatch == 2

\* fixed-point units per 1.0
FracUnits == 10000 * JitterBound

(***************************************************************************)
(* Python values.                                                          *)
(***************************************************************************)
None == [t |-> "none", s |-> <<>>, k |-> "", w |-> 0, f |-> 0]
Str(chars) == [t |-> "str", s |-> chars, k |-> "", w |-> 0, f |-> 0]
\* a finite number w + f/10000 (f counted in 1e-4, as the source writes it)
Num(whole, frac4) ==
    [t |-> "num", s |-> <<>>, k |-> "fin", w |-> whole, f |-> frac4 * JitterBound]
Inf == [t |-> "num", s |-> <<>>, k |-> "inf", w |-> 0, f |-> 0]
NegInf == [t |-> "num", s |-> <<>>, k |-> "ninf", w |-> 0, f |-> 0]
NaN == [t |-> "num", s |-> <<>>, k |-> "nan", w |-> 0, f |-> 0]

\* bool(v): None, "" and 0 are false
Truthy(v) ==
    CASE v.t = "none" -> FALSE
      [] v.t = "str" -> v.s # <<>>
      [] OTHER -> ~(v.k = "fin" /\ v.w = 0 /\ v.f = 0)

\* results of an expression that may raise
Ok(v) == [exc |-> "none", v |-> v]
Raise(e) == [exc |-> e, v |-> None]

(***************************************************************************)
(* Float arithmetic.                                                       *)
(***************************************************************************)
\* a < b on floats (IEEE: every comparison with nan is false)
FLess(a, b) ==
    CASE a.k = "nan" \/ b.k = "nan" -> FALSE
      [] a.k = "inf" -> FALSE
      [] b.k = "ninf" -> FALSE
      [] a.k = "ninf" -> TRUE
      [] b.k = "inf" -> TRUE
      [] OTHER -> a.w < b.w \/ (a.w = b.w /\ a.f < b.f)

\* x + j for a float x and a small offset j counted in 1/FracUnits
FAdd(x, j) ==
    IF x.k # "fin" THEN x
    ELSE [x EXCEPT !.w = x.w + ((x.f + j) \div FracUnits),
                   !.f = (x.f + j) % FracUnits]

\* -x
FNeg(x) ==
    CASE x.k = "inf" -> NegInf
      [] x.k = "ninf" -> Inf
      [] x.k = "nan" -> NaN
      [] OTHER -> IF x.f = 0 THEN [x EXCEPT !.w = 0 - x.w]
                  ELSE [x EXCEPT !.w = 0 - x.w - 1, !.f = FracUnits - x.f]

(***************************************************************************)
(* Strings.                                                                *)
(***************************************************************************)
Digits == {"0", "1", "2", "3", "4", "5", "6", "7", "8", "9"}
DigitVal(c) ==
    CASE c = "0" -> 0 [] c = "1" -> 1 [] c = "2" -> 2 [] c = "3" -> 3
      [] c = "4" -> 4 [] c = "5" -> 5 [] c = "6" -> 6 [] c = "7" -> 7
      [] c = "8" -> 8 [] c = "9" -> 9

\* position of the first c in s, 0 when there is none
RECURSIVE FindFrom(_, _, _)
FindFrom(s, c, i) ==
    IF i > Len(s) THEN 0
    ELSE IF s[i] = c THEN i
    ELSE FindFrom(s, c, i + 1)
Find(s, c) == FindFrom(s, c, 1)

\* c in s
Contains(s, c) == Find(s, c) # 0

\* s.partition(",") -> (head, tail); geo.split(",", 1) gives the same pair
\* whenever s holds a comma, the only case either caller reaches
Partition(s) ==
    LET i == Find(s, ",") IN
    IF i = 0 THEN <<s, <<>>>>
    ELSE <<SubSeq(s, 1, i - 1), SubSeq(s, i + 1, Len(s))>>

\* s.strip() for the blank
RECURSIVE LStrip(_)
LStrip(s) == IF s # <<>> /\ Head(s) = " " THEN LStrip(Tail(s)) ELSE s
RECURSIVE RStrip(_)
RStrip(s) ==
    IF s # <<>> /\ s[Len(s)] = " " THEN RStrip(SubSeq(s, 1, Len(s) - 1)) ELSE s
Strip(s) == LStrip(RStrip(s))

AllDigits(s) == \A i \in 1..Len(s) : s[i] \in Digits

\* value of a digit string read as an integer
RECURSIVE IntOf(_)
IntOf(s) ==
    IF s = <<>> THEN 0 ELSE 10 * IntOf(SubSeq(s, 1, Len(s) - 1)) + DigitVal(s[Len(s)])

\* value of a digit string read as the digits after a decimal point, in 1e-4
\* (digits beyond the fourth are below the model's resolution)
FracOf(s) ==
    LET d(i) == IF i <= Len(s) THEN DigitVal(s[i]) ELSE 0
    IN 1000 * d(1) + 100 * d(2) + 10 * d(3) + d(4)

\* float(s) for a str s: optional blanks, optional sign, then "inf", "nan" or
\* digits with at most one decimal point (exponents and underscores are not
\* among the strings of the model)
FloatOfStr(s) ==
    LET Decimal(ip, fp) ==
            IF AllDigits(ip) /\ AllDigits(fp) /\ Len(ip) + Len(fp) > 0
            THEN Ok(Num(IntOf(ip), FracOf(fp)))
            ELSE Raise("ValueError")
        Split(body, dot) ==
            IF dot = 0 THEN Decimal(body, <<>>)
            ELSE Decimal(SubSeq(body, 1, dot - 1), SubSeq(body, dot + 1, Len(body)))
        Magnitude(body) ==
            CASE body = <<"i", "n", "f">> -> Ok(Inf)
              [] body = <<"n", "a", "n">> -> Ok(NaN)
              [] OTHER -> Split(body, Find(body, "."))
        Signed(neg, mag) ==
            IF mag.exc = "none" /\ neg THEN Ok(FNeg(mag.v)) ELSE mag
        Stripped(t) ==
            IF t # <<>> /\ Head(t) \in {"-", "+"}
            THEN Signed(Head(t) = "-", Magnitude(Tail(t)))
            ELSE Magnitude(t)
    IN Stripped(Strip(s))

\* float(v) for a value read from a row
FloatOf(v) ==
    CASE v.t = "none" -> Raise("TypeError")
      [] v.t = "num" -> Ok(v)
      [] OTHER -> FloatOfStr(v.s)

\* "," in v
HasComma(v) ==
    CASE v.t = "str" -> Ok(Contains(v.s, ","))
      [] OTHER -> Raise("TypeError")

(***************************************************************************)
(* Radius banding.  Radii are counted in hundredths.                       *)
(***************************************************************************)
_radius_upper_inclusive(e) ==
    IF ~FLess(Num(51126, 0), e) /\ e.k # "nan" THEN 1000
    ELSE IF FLess(e, Num(235483, 5677)) THEN 1667
    ELSE IF FLess(e, Num(1212860, 6667)) THEN 2333
    ELSE 4000

\* champion_code._radius
_radius(e) ==
    IF FLess(e, Num(51126, 0)) THEN 1000
    ELSE IF FLess(e, Num(235483, 5677)) THEN 1667
    ELSE IF FLess(e, Num(1212860, 6667)) THEN 2333
    ELSE 4000

\* benchmark_update_filters_and_markers._radius
_radius_benchmark(e) ==
    IF FLess(e, Num(51126, 0)) THEN 1000
    ELSE IF FLess(e, Num(235483, 5677)) THEN 1667
    ELSE IF FLess(e, Num(1212860, 6667)) THEN 2333
    ELSE 4000

(***************************************************************************)
(* Rows and the result schema.                                             *)
(***************************************************************************)
PROJ_ID == "Project_ID"
PROJ_TYPE == "Project_Type"
PROJ_SOURCE == "SourceDB"
PROJ_COUNTRY == "Country"
PROJ_GEO == "geolocation"
PROJ_EMISSIONS == "Estimated_Annual_Emission_Reductions"

ESSENTIAL_COLUMNS_FOR_MARKER_QUERY ==
    <<PROJ_GEO, PROJ_EMISSIONS, PROJ_ID, PROJ_TYPE, PROJ_SOURCE, PROJ_COUNTRY>>

\* row[col_idx.get(name)]: col_idx.get gives None for a column that is not
\* in cursor.description, and indexing a tuple with None raises TypeError
RowGet(row, schema, name) ==
    IF name \in schema THEN Ok(row[name]) ELSE Raise("TypeError")

\* row[col_idx[name]]: a missing key raises KeyError
RowIndex(row, schema, name) ==
    IF name \in schema THEN Ok(row[name]) ELSE Raise("KeyError")

\* rand() * 2e-4 - 1e-4, for rand() = r / (2 * JitterBound)
Jitter(r) == r - JitterBound
\* random.uniform(-1e-4, 1e-4) = -1e-4 + 2e-4 * random()
Uniform(r) == (0 - JitterBound) + r
\* the values random.random() takes on the grid
RandVals == 0..(2 * JitterBound - 1)

Marker(lat, lon, radius, pid, ptype) ==
    [lat |-> lat, lon |-> lon, radius |-> radius,
     project_id |-> pid, project_type |-> ptype]

NoMarker == Marker(NaN, NaN, 0, None, None)
\* outcomes of the marker code of one row
Made(m) == [kind |-> "marker", exc |-> "none", m |-> m]
Returned == [kind |-> "return", exc |-> "none", m |-> NoMarker]
Raised(e) == [kind |-> "raise", exc |-> e, m |-> NoMarker]

(***************************************************************************)
(* champion_code.run_full_benchmark.process_row                            *)
(***************************************************************************)
\* the body of the try block, in evaluation order; r is the value of rand()
MarkerCode(row, schema, r) ==
    LET Body(geolocation, emissions_val, comma, emissions_float, jitter,
             lat, lon, pid, ptype) ==
            IF geolocation.exc # "none" THEN Raised(geolocation.exc)
            ELSE IF emissions_val.exc # "none" THEN Raised(emissions_val.exc)
            ELSE IF ~Truthy(geolocation.v) THEN Returned
            ELSE IF comma.exc # "none" THEN Raised(comma.exc)
            ELSE IF ~comma.v THEN Returned
            ELSE IF emissions_val.v = None THEN Returned
            ELSE IF emissions_float.exc # "none" THEN Raised(emissions_float.exc)
            ELSE IF lat.exc # "none" THEN Raised(lat.exc)
            ELSE IF lon.exc # "none" THEN Raised(lon.exc)
            ELSE IF pid.exc # "none" THEN Raised(pid.exc)
            ELSE IF ptype.exc # "none" THEN Raised(ptype.exc)
            ELSE Made(Marker(FAdd(lat.v, jitter), FAdd(lon.v, jitter),
                             _radius(emissions_float.v), pid.v, ptype.v))
        Parts(geolocation, emissions_val, parts) ==
            Body(geolocation, emissions_val, HasComma(geolocation.v),
                 FloatOf(emissions_val.v), Jitter(r),
                 FloatOfStr(parts[1]), FloatOfStr(parts[2]),
                 RowGet(row, schema, PROJ_ID), RowGet(row, schema, PROJ_TYPE))
        Fields(geolocation, emissions_val) ==
            Parts(geolocation, emissions_val, Partition(geolocation.v.s))
    IN Fields(RowGet(row, schema, PROJ_GEO), RowGet(row, schema, PROJ_EMISSIONS))

CaughtOnlyValueError == {"ValueError"}
\* except (ValueError, TypeError, KeyError, IndexError)
CaughtExceptions == {"ValueError", "TypeError", "KeyError", "IndexError"}

\* counts[val] = counts.get(val, 0) + 1
Increment(counts, val) ==
    IF val \in DOMAIN counts THEN [counts EXCEPT ![val] = @ + 1]
    ELSE counts @@ (val :> 1)

\* if idx is not None and (val := row[idx]): counts[val] = counts.get(val, 0) + 1
Count(counts, row, schema, name) ==
    IF name \in schema /\ Truthy(row[name]) THEN Increment(counts, row[name])
    ELSE counts

\* st holds the variables process_row closes over; exc names an exception
\* that leaves process_row, "none" when there is none
process_row(st, row, schema, r) ==
    LET After(out, n) ==
            IF out.kind = "return" THEN
                [st EXCEPT !.total_rows_fetched = n]
            ELSE IF out.kind = "raise" /\ out.exc \notin CaughtExceptions THEN
                [st EXCEPT !.total_rows_fetched = n, !.exc = out.exc]
            ELSE
                [st EXCEPT
                   !.total_rows_fetched = n,
                   !.markers = IF out.kind = "marker" THEN Append(@, out.m) ELSE @,
                   !.source_counts = Count(@, row, schema, PROJ_SOURCE),
                   !.project_type_counts = Count(@, row, schema, PROJ_TYPE),
                   !.country_counts = Count(@, row, schema, PROJ_COUNTRY)]
    IN After(MarkerCode(row, schema, r), st.total_rows_fetched + 1)

(***************************************************************************)
(* benchmark_update_filters_and_markers.create_marker_data                 *)
(***************************************************************************)
\* the body of the try block; r1, r2 are the two values of random.random()
\* behind the two random.uniform calls
BenchmarkMarkerCode(row, schema, r1, r2) ==
    LET Body(geo, comma, emis_val, pid, ptype, lat, lon, e) ==
            IF geo.exc # "none" THEN Raised(geo.exc)
            ELSE IF ~Truthy(geo.v) THEN Returned
            ELSE IF comma.exc # "none" THEN Raised(comma.exc)
            ELSE IF ~comma.v THEN Returned
            ELSE IF emis_val.exc # "none" THEN Raised(emis_val.exc)
            ELSE IF pid.exc # "none" THEN Raised(pid.exc)
            ELSE IF ptype.exc # "none" THEN Raised(ptype.exc)
            ELSE IF emis_val.v = None \/ pid.v = None THEN Returned
            ELSE IF lat.exc # "none" THEN Raised(lat.exc)
            ELSE IF lon.exc # "none" THEN Raised(lon.exc)
            ELSE IF e.exc # "none" THEN Raised(e.exc)
            ELSE Made(Marker(FAdd(lat.v, Uniform(r1)), FAdd(lon.v, Uniform(r2)),
                             _radius_benchmark(e.v), pid.v, ptype.v))
        Parts(geo, emis_val, parts) ==
            Body(geo, HasComma(geo.v), emis_val,
                 RowIndex(row, schema, PROJ_ID), RowIndex(row, schema, PROJ_TYPE),
                 FloatOfStr(parts[1]), FloatOfStr(parts[2]), FloatOf(emis_val.v))
        Fields(geo, emis_val) == Parts(geo, emis_val, Partition(geo.v.s))
    IN Fields(RowIndex(row, schema, PROJ_GEO), RowIndex(row, schema, PROJ_EMISSIONS))

\* except Exception
CaughtByExcept == {"ValueError", "TypeError", "KeyError", "IndexError"}

\* the result is the marker, or Returned for None; a Raised result is an
\* exception that leaves create_marker_data
create_marker_data(row, schema, r1, r2) ==
    LET Handled(out) ==
            IF out.kind = "raise" /\ out.exc \in CaughtByExcept THEN Returned ELSE out
    IN Handled(BenchmarkMarkerCode(row, schema, r1, r2))

(***************************************************************************)
(* champion_code.build_filter_query                                        *)
(***************************************************************************)
PROJECT_TABLE_NAME == "mytable"

\* a key of the filters dict: absent, or present with a list of values
Absent == [present |-> FALSE, vals |-> <<>>]
Present(vals) == [present |-> TRUE, vals |-> vals]
\* filters.get(key) is truthy
Given(f) == f.present /\ f.vals # <<>>

\* f"`{column}` IN ({placeholders}) COLLATE NOCASE"
InList(column, n) ==
    [column |-> column, op |-> "IN", placeholders |-> n, collate |-> "NOCASE"]

\* The query string is kept in its parts: the select list, the table, whether
\* " WHERE " was appended, and the fragments joined by " AND ".
build_filter_query_key_present(fs, columns) ==
    LET sources == fs.sources
        where_conditions ==
            IF sources.present THEN <<InList(PROJ_SOURCE, Len(sources.vals))>>
            ELSE <<>>
    IN [select |-> IF columns # <<>> THEN columns ELSE <<"*">>,
        table |-> PROJECT_TABLE_NAME,
        has_where |-> where_conditions # <<>>,
        where_conditions |-> where_conditions,
        params |-> sources.vals]

build_filter_query(fs, columns) ==
    LET select_clause == IF columns # <<>> THEN columns ELSE <<"*">>
        sources == fs.sources
        where_conditions ==
            IF Given(sources) THEN <<InList(PROJ_SOURCE, Len(sources.vals))>>
            ELSE <<>>
        params == IF Given(sources) THEN sources.vals ELSE <<>>
    IN [select |-> select_clause,
        table |-> PROJECT_TABLE_NAME,
        has_where |-> where_conditions # <<>>,
        where_conditions |-> where_conditions,
        params |-> params]

\* FILTERS_TO_TEST = {'sources': ['Verra', 'GoldStandard']}
FILTERS_TO_TEST ==
    [sources |-> Present(<<"Verra", "GoldStandard">>),
     countries |-> Absent, project_types |-> Absent]

NoQuery ==
    [select |-> <<>>, table |-> "", has_where |-> FALSE,
     where_conditions |-> <<>>, params |-> <<>>]

\* the columns of mytable, in the order SELECT * gives them
TableColumns ==
    <<PROJ_ID, PROJ_TYPE, PROJ_SOURCE, PROJ_COUNTRY, PROJ_GEO, PROJ_EMISSIONS>>

Range(seq) == {seq[i] : i \in 1..Len(seq)}

\* col_idx = {name: i for i, name in enumerate(col_names)}, kept as the set
\* of its keys
col_idx(q) == IF q.select = <<"*">> THEN Range(TableColumns) ELSE Range(q.select)

(***************************************************************************)
(* The cursor.                                                             *)
(***************************************************************************)
Min(a, b) == IF a < b THEN a ELSE b

\* rows not yet handed out
Remaining(tbl, c) == SubSeq(tbl, c + 1, Len(tbl))

\* cursor.fetchall()
fetchall(tbl, c) == Remaining(tbl, c)

\* The batches cursor.fetchmany(size) can return.  For size <= 0 the result
\* depends on the interpreter: sqlite3 counts rows up to size and never
\* reaches a size <= 0, so every remaining row comes back; later
\* interpreters return no row for size = 0.
fetchmany(tbl, c, size) ==
    IF size > 0 THEN {SubSeq(tbl, c + 1, Min(c + size, Len(tbl)))}
    ELSE IF size = 0 THEN {Remaining(tbl, c), <<>>}
    ELSE {Remaining(tbl, c)}

\* next(cursor): one row, or no row at the end (StopIteration)
iternext(tbl, c) == SubSeq(tbl, c + 1, Min(c + 1, Len(tbl)))

\* cursor.arraysize = size: later interpreters raise ValueError for size < 0
ArraysizeOutcomes(size) == IF size < 0 THEN {"ok", "ValueError"} ELSE {"ok"}

BatchEndsLoopWhenShort(batch, size) == Len(batch) < size
\* if not rows: break
BatchEndsLoop(batch, size) == batch = <<>>

(***************************************************************************)
(* Inputs.                                                                 *)
(***************************************************************************)
Chars(str) ==
    CASE str = "" -> <<>>
      [] str = "1,2" -> <<"1", ",", "2">>
      [] str = "3,4" -> <<"3", ",", "4">>
      [] str = "12" -> <<"1", "2">>
      [] str = "1,x" -> <<"1", ",", "x">>
      [] str = "x,2" -> <<"x", ",", "2">>
      [] str = "1,2,3" -> <<"1", ",", "2", ",", "3">>
      [] str = "1," -> <<"1", ",">>
      [] str = " 1.5 ,-2" -> <<" ", "1", ".", "5", " ", ",", "-", "2">>
      [] str = "inf" -> <<"i", "n", "f">>
      [] str = "nan" -> <<"n", "a", "n">>
      [] str = "abc" -> <<"a", "b", "c">>
      [] str = "7" -> <<"7">>
      [] str = "51126" -> <<"5", "1", "1", "2", "6">>
      [] OTHER -> <<str>>

\* a short name or label kept as one symbol
Text(str) == Str(Chars(str))

Row(geo, emission, pid, ptype, source, country) ==
    (PROJ_GEO :> geo) @@ (PROJ_EMISSIONS :> emission) @@ (PROJ_ID :> pid)
    @@ (PROJ_TYPE :> ptype) @@ (PROJ_SOURCE :> source) @@ (PROJ_COUNTRY :> country)

\* rows of the query results of the pass
PassRows ==
    { Row(Text("1,2"), Num(7, 0), Text("P1"), Text("T1"), Text("Verra"), Text("Kenya")),
      Row(Text("3,4"), Num(51126, 0), Text("P2"), Text(""), Text("GoldStandard"), None),
      Row(None, Num(7, 0), Text("P3"), Text("T1"), Text("Verra"), Text("Kenya")),
      Row(Text("1,x"), Num(7, 0), Text("P4"), Text("T2"), Text("GoldStandard"), Text("")),
      Row(Text("1,2"), None, Text("P5"), None, Text("Verra"), Text("Peru")) }

RECURSIVE SeqsUpTo(_, _)
\* the sequences over S of length at most n
SeqsUpTo(S, n) ==
    IF n = 0 THEN {<<>>}
    ELSE LET shorter == SeqsUpTo(S, n - 1)
         IN shorter \cup {Append(q, x) : q \in {t \in shorter : Len(t) = n - 1}, x \in S}

\* columns_to_select of the configurations tried
ColumnChoices ==
    { <<>>,
      TableColumns,
      <<PROJ_ID, PROJ_TYPE, PROJ_COUNTRY, PROJ_GEO, PROJ_EMISSIONS>>,
      <<PROJ_TYPE, PROJ_SOURCE, PROJ_COUNTRY, PROJ_EMISSIONS>>,
      <<PROJ_SOURCE, PROJ_COUNTRY, PROJ_GEO, PROJ_EMISSIONS>> }

DB_FETCH_BATCH_SIZE_DEFAULT == 16384

\* BENCHMARK_CONFIG values tried: the batch size is read by every strategy
\* and used by fetchmany only
Configs ==
    { [fetch_strategy |-> fs, db_fetch_batch_size |-> b, columns_to_select |-> c] :
        fs \in {"iterate", "fetchall"}, b \in {DB_FETCH_BATCH_SIZE_DEFAULT},
        c \in ColumnChoices }
    \cup
    { [fetch_strategy |-> "fetchmany", db_fetch_batch_size |-> b,
       columns_to_select |-> c] : b \in (0 - 1)..MaxBatch, c \in ColumnChoices }

\* run_benchmark(db_path, batch_size): always fetchmany over the essential columns
BenchmarkConfigs ==
    { [fetch_strategy |-> "fetchmany", db_fetch_batch_size |-> b,
       columns_to_select |-> ESSENTIAL_COLUMNS_FOR_MARKER_QUERY] :
        b \in (0 - 1)..MaxBatch }

NoReport == [printed |-> FALSE, total |-> 0, markers |-> 0,
             sources |-> 0, types |-> 0, countries |-> 0]

\* sqlite3.Error, raised by cursor.execute or by a fetch call when the store
\* fails
StoreError == "sqlite3.Error"

\* how a call on the cursor can end
StoreOutcomes == {"ok", StoreError}

\* a handler that reports the error and lets the function go on to its
\* results, as the one around the query plan analysis does
AfterStoreErrorCaught == "finish"

\* where a StoreError raised by the execution of the query or by a fetch call
\* takes the function: no except clause encloses these calls, the exception
\* leaves the function
AfterStoreError == "failed"

(***************************************************************************)
(* The pass: run_full_benchmark (mode "champion") and run_benchmark (mode  *)
(* "benchmark").                                                           *)
(***************************************************************************)
\* the variables process_row closes over
Closure ==
    [markers |-> markers, source_counts |-> source_counts,
     project_type_counts |-> project_type_counts,
     country_counts |-> country_counts,
     total_rows_fetched |-> total_rows_fetched, exc |-> "none"]

Idle ==
    /\ pc = "start" /\ cur = 0 /\ rows = <<>> /\ fetch_calls = 0
    /\ markers = <<>> /\ bmarkers = <<>>
    /\ source_counts = <<>> /\ project_type_counts = <<>> /\ country_counts = <<>>
    /\ total_rows_fetched = 0 /\ report = NoReport /\ query = NoQuery
    /\ exc = "none" /\ validation = "running"

Init ==
    /\ mode \in {"champion", "benchmark"}
    /\ config \in (IF mode = "champion" THEN Configs ELSE BenchmarkConfigs)
    /\ table \in SeqsUpTo(PassRows, MaxRows)
    /\ filters = FILTERS_TO_TEST
    /\ emis = <<>> /\ rad = <<>>
    /\ Idle

\* run_full_benchmark up to the fetch loop: the cursor, its arraysize, the
\* query and its execution.  A StoreError of the query plan analysis is
\* caught there and changes nothing but the text printed.
Execute ==
    /\ mode = "champion" /\ pc = "start"
    /\ \E o \in ArraysizeOutcomes(config.db_fetch_batch_size),
          e \in StoreOutcomes :
         IF o # "ok"
         THEN /\ query' = query
              /\ pc' = "failed"
              /\ exc' = o
         ELSE /\ query' = build_filter_query(filters, config.columns_to_select)
              /\ pc' = IF e = "ok" THEN "fetch" ELSE AfterStoreError
              /\ exc' = IF e = "ok" THEN "none" ELSE e
    /\ UNCHANGED <<mode, config, table, cur, rows, fetch_calls, markers,
                   source_counts, project_type_counts, country_counts,
                   total_rows_fetched, bmarkers, report, filters, emis, rad,
                   validation>>

\* rows = cursor.fetchall(); for row in rows
FetchAll ==
    /\ mode = "champion" /\ pc = "fetch" /\ config.fetch_strategy = "fetchall"
    /\ \E e \in StoreOutcomes :
         IF e = "ok"
         THEN /\ rows' = fetchall(table, cur)
              /\ cur' = cur + Len(rows')
              /\ pc' = IF rows' = <<>> THEN "finish" ELSE "loop"
              /\ exc' = exc
         ELSE /\ rows' = rows /\ cur' = cur
              /\ pc' = AfterStoreError
              /\ exc' = e
    /\ fetch_calls' = fetch_calls + 1
    /\ UNCHANGED <<mode, config, table, markers, source_counts,
                   project_type_counts, country_counts, total_rows_fetched,
                   bmarkers, report, filters, query, emis, rad, validation>>

\* rows = cursor.fetchmany(cursor.arraysize); if not rows: break
FetchMany ==
    /\ mode = "champion" /\ pc = "fetch" /\ config.fetch_strategy = "fetchmany"
    /\ \/ \E batch \in fetchmany(table, cur, config.db_fetch_batch_size) :
            /\ rows' = batch
            /\ cur' = cur + Len(batch)
            /\ pc' = IF BatchEndsLoop(batch, config.db_fetch_batch_size)
                     THEN "finish" ELSE "loop"
            /\ exc' = exc
       \/ \E e \in StoreOutcomes \ {"ok"} :
            /\ rows' = rows /\ cur' = cur
            /\ pc' = AfterStoreError
            /\ exc' = e
    /\ fetch_calls' = fetch_calls + 1
    /\ UNCHANGED <<mode, config, table, markers, source_counts,
                   project_type_counts, country_counts, total_rows_fetched,
                   bmarkers, report, filters, query, emis, rad, validation>>

\* for row in cursor
IterNext ==
    /\ mode = "champion" /\ pc = "fetch"
    /\ config.fetch_strategy \notin {"fetchall", "fetchmany"}
    /\ \E e \in StoreOutcomes :
         IF e = "ok"
         THEN /\ rows' = iternext(table, cur)
              /\ cur' = cur + Len(rows')
              /\ pc' = IF rows' = <<>> THEN "finish" ELSE "loop"
              /\ exc' = exc
         ELSE /\ rows' = rows /\ cur' = cur
              /\ pc' = AfterStoreError
              /\ exc' = e
    /\ fetch_calls' = fetch_calls + 1
    /\ UNCHANGED <<mode, config, table, markers, source_counts,
                   project_type_counts, country_counts, total_rows_fetched,
                   bmarkers, report, filters, query, emis, rad, validation>>

\* process_row(row) for the next fetched row
ProcessRow ==
    /\ mode = "champion" /\ pc = "loop" /\ rows # <<>>
    /\ \E r \in RandVals :
       \E st \in {process_row(Closure, Head(rows), col_idx(query), r)} :
         /\ markers' = st.markers
         /\ source_counts' = st.source_counts
         /\ project_type_counts' = st.project_type_counts
         /\ country_counts' = st.country_counts
         /\ total_rows_fetched' = st.total_rows_fetched
         /\ pc' = IF st.exc # "none" THEN "failed"
                  ELSE IF Tail(rows) # <<>> THEN "loop"
                  ELSE IF config.fetch_strategy = "fetchall" THEN "finish"
                  ELSE "fetch"
         /\ exc' = st.exc
    /\ rows' = Tail(rows)
    /\ UNCHANGED <<mode, config, table, cur, fetch_calls, bmarkers, report,
                   filters, query, emis, rad, validation>>

\* conn.close() and the printed results
Finish ==
    /\ mode = "champion" /\ pc = "finish"
    /\ report' = [printed |-> TRUE, total |-> total_rows_fetched,
                  markers |-> Len(markers),
                  sources |-> Cardinality(DOMAIN source_counts),
                  types |-> Cardinality(DOMAIN project_type_counts),
                  countries |-> Cardinality(DOMAIN country_counts)]
    /\ pc' = "done"
    /\ UNCHANGED <<mode, config, table, cur, rows, fetch_calls, markers,
                   source_counts, project_type_counts, country_counts,
                   total_rows_fetched, bmarkers, filters, query, emis, rad,
                   exc, validation>>

\* the query of run_benchmark: the essential columns, no WHERE clause
benchmark_query ==
    [select |-> ESSENTIAL_COLUMNS_FOR_MARKER_QUERY, table |-> PROJECT_TABLE_NAME,
     has_where |-> FALSE, where_conditions |-> <<>>, params |-> <<>>]

\* run_benchmark up to the fetch loop
BenchExecute ==
    /\ mode = "benchmark" /\ pc = "start"
    /\ \E o \in ArraysizeOutcomes(config.db_fetch_batch_size),
          e \in StoreOutcomes :
         IF o # "ok"
         THEN query' = query /\ pc' = "failed" /\ exc' = o
         ELSE /\ query' = benchmark_query
              /\ pc' = IF e = "ok" THEN "fetch" ELSE AfterStoreError
              /\ exc' = IF e = "ok" THEN "none" ELSE e
    /\ UNCHANGED <<mode, config, table, cur, rows, fetch_calls, markers,
                   source_counts, project_type_counts, country_counts,
                   total_rows_fetched, bmarkers, report, filters, emis, rad,
                   validation>>

\* chunk = fetch(batch_size); if not chunk: break
BenchFetch ==
    /\ mode = "benchmark" /\ pc = "fetch"
    /\ \/ \E chunk \in fetchmany(table, cur, config.db_fetch_batch_size) :
            /\ rows' = chunk
            /\ cur' = cur + Len(chunk)
            /\ pc' = IF chunk = <<>> THEN "finish" ELSE "loop"
            /\ exc' = exc
       \/ \E e \in StoreOutcomes \ {"ok"} :
            /\ rows' = rows /\ cur' = cur
            /\ pc' = AfterStoreError
            /\ exc' = e
    /\ fetch_calls' = fetch_calls + 1
    /\ UNCHANGED <<mode, config, table, markers, source_counts,
                   project_type_counts, country_counts, total_rows_fetched,
                   bmarkers, report, filters, query, emis, rad, validation>>

\* one row of the chunk through create_marker_data; extend(batch) after the
\* chunk appends the markers of its rows in order, as appending each does
BenchProcessRow ==
    /\ mode = "benchmark" /\ pc = "loop" /\ rows # <<>>
    /\ \E r1 \in RandVals, r2 \in RandVals :
       \E out \in {create_marker_data(Head(rows), col_idx(query), r1, r2)} :
         /\ bmarkers' = IF out.kind = "marker" THEN Append(bmarkers, out.m)
                        ELSE bmarkers
         /\ pc' = IF out.kind = "raise" THEN "failed"
                  ELSE IF Tail(rows) # <<>> THEN "loop" ELSE "fetch"
         /\ exc' = IF out.kind = "raise" THEN out.exc ELSE "none"
    /\ rows' = Tail(rows)
    /\ UNCHANGED <<mode, config, table, cur, fetch_calls, markers,
                   source_counts, project_type_counts, country_counts,
                   total_rows_fetched, report, filters, query, emis, rad,
                   validation>>

\* times["markers"] = len(markers); conn.close(); return times
BenchFinish ==
    /\ mode = "benchmark" /\ pc = "finish"
    /\ report' = [NoReport EXCEPT !.printed = TRUE, !.markers = Len(bmarkers)]
    /\ pc' = "done"
    /\ UNCHANGED <<mode, config, table, cur, rows, fetch_calls, markers,
                   source_counts, project_type_counts, country_counts,
                   total_rows_fetched, bmarkers, filters, query, emis, rad,
                   exc, validation>>

\* the values run_and_validate.py requires of the printed results
REQUIRED_SIG ==
    [total |-> 8321, markers |-> 8302, sources |-> 2, types |-> 67,
     countries |-> 152]

\* proc.returncode: an exception that leaves the script ends the interpreter
\* with status 1
returncode == IF pc = "failed" THEN 1 ELSE 0

\* the printed numbers run_and_validate.py compares with REQUIRED_SIG; the
\* output of run_benchmark has none of its keys
Signature ==
    IF mode = "champion" /\ report.printed
    THEN [total |-> report.total, markers |-> report.markers,
          sources |-> report.sources, types |-> report.types,
          countries |-> report.countries]
    ELSE None

\* one round of the loop of run_and_validate.py on the finished run
ValidateRun ==
    /\ mode \in {"champion", "benchmark"} /\ pc \in {"done", "failed"}
    /\ validation = "running"
    /\ validation' = IF returncode # 0 THEN "exit_1"
                      ELSE IF Signature # REQUIRED_SIG THEN "validation_failed"
                      ELSE "accepted"
    /\ UNCHANGED <<mode, pc, config, table, cur, rows, fetch_calls, markers,
                   source_counts, project_type_counts, country_counts,
                   total_rows_fetched, bmarkers, report, filters, query,
                   emis, rad, exc>>

Next ==
    \/ Execute \/ FetchAll \/ FetchMany \/ IterNext \/ ProcessRow \/ Finish
    \/ BenchExecute \/ BenchFetch \/ BenchProcessRow \/ BenchFinish
    \/ ValidateRun

Spec == Init /\ [][Next]_vars

(***************************************************************************)
(* One row through process_row (mode "row_champion") or through            *)
(* create_marker_data (mode "row_benchmark").                              *)
(***************************************************************************)
GeoValues ==
    { None, Text(""), Text("1,2"), Text("12"), Text("1,x"), Text("x,2"),
      Text("1,2,3"), Text("1,"), Text(" 1.5 ,-2"), Num(5, 0) }

EmissionValues ==
    { None, Num(7, 0), Num(51126, 0), Num(1212860, 6667), Inf, NaN,
      Text("abc"), Text("7"), Text("inf"), Text("") }

RowValues ==
    { Row(g, e, p, t, src, c) :
        g \in GeoValues, e \in EmissionValues, p \in {None, Text("P1")},
        t \in {None, Text("T1")}, src \in {None, Text(""), Text("Verra")},
        c \in {None, Text("Kenya")} }

InitRow ==
    /\ mode \in {"row_champion", "row_benchmark"}
    /\ \E c \in ColumnChoices :
         /\ config = [fetch_strategy |-> "iterate",
                      db_fetch_batch_size |-> DB_FETCH_BATCH_SIZE_DEFAULT,
                      columns_to_select |-> c]
         /\ query = build_filter_query(FILTERS_TO_TEST, c)
    /\ \E row \in RowValues : table = <<row>>
    /\ filters = FILTERS_TO_TEST
    /\ emis = <<>> /\ rad = <<>>
    /\ pc = "start" /\ cur = 0 /\ rows = <<>> /\ fetch_calls = 0
    /\ markers = <<>> /\ bmarkers = <<>>
    /\ source_counts = <<>> /\ project_type_counts = <<>> /\ country_counts = <<>>
    /\ total_rows_fetched = 0 /\ report = NoReport
    /\ exc = "none" /\ validation = "running"

\* process_row(row) on the state run_full_benchmark starts the loop with
CallProcessRow ==
    /\ mode = "row_champion" /\ pc = "start"
    /\ \E r \in RandVals :
       \E st \in {process_row(Closure, table[1], col_idx(query), r)} :
         /\ markers' = st.markers
         /\ source_counts' = st.source_counts
         /\ project_type_counts' = st.project_type_counts
         /\ country_counts' = st.country_counts
         /\ total_rows_fetched' = st.total_rows_fetched
         /\ pc' = IF st.exc # "none" THEN "failed" ELSE "called"
         /\ exc' = st.exc
    /\ UNCHANGED <<mode, config, table, cur, rows, fetch_calls, bmarkers, report,
                   filters, query, emis, rad, validation>>

\* [m for m in (create_marker_data(r, col_idx),) if m]
CallCreateMarkerData ==
    /\ mode = "row_benchmark" /\ pc = "start"
    /\ \E r1 \in RandVals, r2 \in RandVals :
       \E out \in {create_marker_data(table[1], col_idx(query), r1, r2)} :
         /\ bmarkers' = IF out.kind = "marker" THEN <<out.m>> ELSE <<>>
         /\ pc' = IF out.kind = "raise" THEN "failed" ELSE "called"
         /\ exc' = IF out.kind = "raise" THEN out.exc ELSE "none"
    /\ UNCHANGED <<mode, config, table, cur, rows, fetch_calls, markers,
                   source_counts, project_type_counts, country_counts,
                   total_rows_fetched, report, filters, query, emis, rad,
                   validation>>

NextRow == CallProcessRow \/ CallCreateMarkerData

SpecRow == InitRow /\ [][NextRow]_vars

(***************************************************************************)
(* build_filter_query on its own (mode "query").                           *)
(***************************************************************************)
\* most values in one filter list
MaxFilterVals == 2

FilterChoices ==
    { [sources |-> src, countries |-> c, project_types |-> t] :
        src \in {Absent} \cup {Present(v) : v \in SeqsUpTo({"Verra", "GoldStandard"},
                                                         MaxFilterVals)},
        c \in {Absent, Present(<<>>), Present(<<"Kenya">>), Present(<<"Kenya", "Peru">>)},
        t \in {Absent, Present(<<"REDD">>)} }

InitQuery ==
    /\ mode = "query"
    /\ filters \in FilterChoices
    /\ \E c \in ColumnChoices :
         config = [fetch_strategy |-> "iterate",
                   db_fetch_batch_size |-> DB_FETCH_BATCH_SIZE_DEFAULT,
                   columns_to_select |-> c]
    /\ table = <<>> /\ emis = <<>> /\ rad = <<>>
    /\ Idle

\* sql_query, params = build_filter_query(filters, columns_to_select)
BuildFilterQuery ==
    /\ mode = "query" /\ pc = "start"
    /\ query' = build_filter_query(filters, config.columns_to_select)
    /\ pc' = "built"
    /\ UNCHANGED <<mode, config, table, cur, rows, fetch_calls, markers,
                   source_counts, project_type_counts, country_counts,
                   total_rows_fetched, bmarkers, report, filters, emis, rad,
                   exc, validation>>

NextQuery == BuildFilterQuery

SpecQuery == InitQuery /\ [][NextQuery]_vars

(***************************************************************************)
(* The two _radius functions on their own (mode "radius").                 *)
(***************************************************************************)
RadiusInputs ==
    { Num(w, f) : w \in {0 - 1, 0, 51125, 51126, 51127, 235483, 235484,
                         1212860, 1212861},
                  f \in {0, 1, 5676, 5677, 5678, 6666, 6667, 6668, 9999} }
    \cup {Inf, NegInf, NaN}

NotCalled == <<>>

InitRadius ==
    /\ mode = "radius"
    /\ emis \in RadiusInputs \X RadiusInputs
    /\ rad = [champion |-> NotCalled, benchmark |-> NotCalled]
    /\ config = [fetch_strategy |-> "iterate",
                 db_fetch_batch_size |-> DB_FETCH_BATCH_SIZE_DEFAULT,
                 columns_to_select |-> <<>>]
    /\ table = <<>> /\ filters = FILTERS_TO_TEST
    /\ Idle

\* champion_code._radius on both inputs
CallRadius ==
    /\ mode = "radius" /\ rad.champion = NotCalled
    /\ rad' = [rad EXCEPT !.champion = <<_radius(emis[1]), _radius(emis[2])>>]
    /\ UNCHANGED <<mode, pc, config, table, cur, rows, fetch_calls, markers,
                   source_counts, project_type_counts, country_counts,
                   total_rows_fetched, bmarkers, report, filters, query, emis,
                   exc, validation>>

\* benchmark_update_filters_and_markers._radius on both inputs
CallRadiusBenchmark ==
    /\ mode = "radius" /\ rad.benchmark = NotCalled
    /\ rad' = [rad EXCEPT !.benchmark = <<_radius_benchmark(emis[1]),
                                          _radius_benchmark(emis[2])>>]
    /\ UNCHANGED <<mode, pc, config, table, cur, rows, fetch_calls, markers,
                   source_counts, project_type_counts, country_counts,
                   total_rows_fetched, bmarkers, report, filters, query, emis,
                   exc, validation>>

NextRadius == CallRadius \/ CallRadiusBenchmark

SpecRadius == InitRadius /\ [][NextRadius]_vars

(***************************************************************************)
(* Properties of the pass (Spec).                                          *)
(***************************************************************************)
RECURSIVE SumCounts(_, _)
\* the sum of counts[k] over the keys in keys
SumCounts(counts, keys) ==
    IF keys = {} THEN 0
    ELSE LET k == CHOOSE x \in keys : TRUE
         IN counts[k] + SumCounts(counts, keys \ {k})

Total(counts) == SumCounts(counts, DOMAIN counts)

\* the rows given to process_row so far
Processed == SubSeq(table, 1, total_rows_fetched)

\* the processed rows whose value for the column is non-null and non-empty
NonEmpty(name) ==
    Cardinality({i \in 1..Len(Processed) :
                   Processed[i][name] # None /\ Processed[i][name] # Text("")})

\* C1: in run_full_benchmark, for each of source, project type and country
\* that is in the result schema, the counts of its table sum to the number
\* of processed rows whose value for it is non-null and non-empty, whether
\* or not the row gave a Marker.
C1_CountingAlwaysRuns ==
    (mode = "champion" /\ pc \in {"loop", "fetch", "finish", "done"}) =>
        /\ PROJ_SOURCE \in col_idx(query) =>
              Total(source_counts) = NonEmpty(PROJ_SOURCE)
        /\ PROJ_TYPE \in col_idx(query) =>
              Total(project_type_counts) = NonEmpty(PROJ_TYPE)
        /\ PROJ_COUNTRY \in col_idx(query) =>
              Total(country_counts) = NonEmpty(PROJ_COUNTRY)

\* two markers that differ by jitter at most
SameButJitter(m, n) ==
    /\ m.radius = n.radius
    /\ m.project_id = n.project_id
    /\ m.project_type = n.project_type
    /\ ~FLess(m.lat, FAdd(n.lat, 0 - JitterBound))
    /\ ~FLess(FAdd(n.lat, JitterBound), m.lat)
    /\ ~FLess(m.lon, FAdd(n.lon, 0 - JitterBound))
    /\ ~FLess(FAdd(n.lon, JitterBound), m.lon)

RECURSIVE RowByRow(_, _, _)
\* process_row over every row of tbl in order, with no jitter
RowByRow(st, tbl, schema) ==
    IF tbl = <<>> THEN st
    ELSE RowByRow(process_row(st, Head(tbl), schema, JitterBound), Tail(tbl), schema)

Fresh ==
    [markers |-> <<>>, source_counts |-> <<>>, project_type_counts |-> <<>>,
     country_counts |-> <<>>, total_rows_fetched |-> 0, exc |-> "none"]

SameResult(ref) ==
    /\ total_rows_fetched = ref.total_rows_fetched
    /\ total_rows_fetched = Len(table)
    /\ source_counts = ref.source_counts
    /\ project_type_counts = ref.project_type_counts
    /\ country_counts = ref.country_counts
    /\ Len(markers) = Len(ref.markers)
    /\ \A i \in 1..Len(markers) : SameButJitter(markers[i], ref.markers[i])

\* C2: for one query result, 'iterate', 'fetchall' and 'fetchmany' with a
\* positive batch size end with the result of calling process_row on every
\* row of the result in order: the same total_rows_fetched, the same three
\* counting tables and the same markers but for jitter.
C2_StrategiesAgree ==
    (/\ mode = "champion" /\ pc = "done"
     /\ (config.fetch_strategy = "fetchmany" => config.db_fetch_batch_size > 0))
    => SameResult(RowByRow(Fresh, table, col_idx(query)))

\* a batched pass that took several batches and made markers
C2_Witness ==
    /\ mode = "champion" /\ pc = "done"
    /\ config.fetch_strategy = "fetchmany"
    /\ config.db_fetch_batch_size > 0
    /\ Len(table) > config.db_fetch_batch_size
    /\ fetch_calls >= 3
    /\ total_rows_fetched = Len(table)
    /\ Len(markers) > 0

\* C6: under 'fetchmany' a batch size <= 0 is rejected before any row is
\* fetched: no fetch call, no processed row, no printed result.
C6_NonPositiveBatchRejected ==
    (/\ mode = "champion"
     /\ config.fetch_strategy = "fetchmany"
     /\ config.db_fetch_batch_size <= 0)
    => /\ fetch_calls = 0
       /\ total_rows_fetched = 0
       /\ ~report.printed

\* the row's geolocation, coordinate tokens or emission value do not parse,
\* or a column the marker code reads is not in the result schema
DecodeFails(row, schema) ==
    \/ ~({PROJ_GEO, PROJ_EMISSIONS, PROJ_ID, PROJ_TYPE} \subseteq schema)
    \/ row[PROJ_GEO].t # "str"
    \/ ~Contains(row[PROJ_GEO].s, ",")
    \/ FloatOfStr(Partition(row[PROJ_GEO].s)[1]).exc # "none"
    \/ FloatOfStr(Partition(row[PROJ_GEO].s)[2]).exc # "none"
    \/ FloatOf(row[PROJ_EMISSIONS]).exc # "none"

\* C9: processing a row whose decoding fails raises nothing, leaves the
\* markers collected so far as they are and goes on to the rows that
\* follow; once the first fetch is issued the pass fails only by a failure
\* of the store.
C9_DecodeFailureContained ==
    [][ /\ (/\ pc = "loop" /\ rows # <<>>
            /\ DecodeFails(Head(rows), col_idx(query)))
           => /\ markers' = markers
              /\ bmarkers' = bmarkers
              /\ rows' = Tail(rows)
              /\ pc' \in {"loop", "fetch", "finish"}
        /\ pc' = "failed" => (fetch_calls' = 0 \/ exc' = StoreError) ]_vars

\* a pass whose first row failed to decode and whose second row gave a marker
C9_Witness ==
    /\ mode = "champion" /\ pc = "done"
    /\ Len(table) >= 2
    /\ table[1][PROJ_GEO] = Text("1,x")
    /\ DecodeFails(table[1], col_idx(query))
    /\ total_rows_fetched = Len(table)
    /\ Len(markers) = 1

\* C11: a failure of the store on the execution of the query or on a fetch
\* call (fetch-all, batch or next row) ends the invocation in failure:
\* no result is printed, whatever rows were processed before, the validator
\* exits with status 1, and nothing is executed, fetched or processed
\* afterwards, under each fetch strategy.
C11_StoreFailureFailsWhole ==
    [][ /\ exc' = StoreError
           => /\ pc' = "failed"
              /\ report' = NoReport
              /\ validation' \in {"running", "exit_1"}
        /\ exc = StoreError
           => /\ fetch_calls' = fetch_calls
              /\ cur' = cur /\ rows' = rows /\ query' = query
              /\ total_rows_fetched' = total_rows_fetched
              /\ markers' = markers /\ bmarkers' = bmarkers
              /\ source_counts' = source_counts
              /\ project_type_counts' = project_type_counts
              /\ country_counts' = country_counts ]_vars

\* a pass row by row whose store failed on a later fetch, after a row was
\* processed and gave a marker, seen by the validator
C11_Witness ==
    /\ mode = "champion" /\ config.fetch_strategy = "iterate"
    /\ exc = StoreError /\ pc = "failed"
    /\ fetch_calls >= 2
    /\ total_rows_fetched >= 1 /\ Len(markers) >= 1
    /\ report = NoReport
    /\ validation = "exit_1"

(***************************************************************************)
(* Properties of one row (SpecRow).                                        *)
(***************************************************************************)
TheRow == table[1]

MarkerColumns == {PROJ_GEO, PROJ_EMISSIONS, PROJ_ID, PROJ_TYPE}

CommaCount(str) == Cardinality({i \in 1..Len(str) : str[i] = ","})

\* geolocation is a string with exactly one comma between two numeric tokens
TwoNumericTokens(geo) ==
    /\ geo.t = "str"
    /\ CommaCount(geo.s) = 1
    /\ FloatOfStr(Partition(geo.s)[1]).exc = "none"
    /\ FloatOfStr(Partition(geo.s)[2]).exc = "none"

\* the emission value is non-null and numeric
NumericEmission(e) == e # None /\ FloatOf(e).exc = "none"

\* the emission value is non-null and parses as a finite number
FiniteEmission(e) == NumericEmission(e) /\ FloatOf(e).v.k = "fin"

\* the markers the call made, whichever function was called
Made1 == IF mode = "row_champion" THEN markers ELSE bmarkers

\* C3: a row with exactly one comma between two numeric tokens and a
\* non-null numeric emission value gives exactly one Marker, with radius
\* _radius(emission) and the row's project id and project type unchanged,
\* whatever its other fields (a null project id included), from process_row
\* and from create_marker_data alike.
C3_ValidRowGivesOneMarker ==
    (/\ mode \in {"row_champion", "row_benchmark"} /\ pc # "start"
     /\ MarkerColumns \subseteq col_idx(query)
     /\ TwoNumericTokens(TheRow[PROJ_GEO])
     /\ NumericEmission(TheRow[PROJ_EMISSIONS]))
    => /\ pc = "called"
       /\ Len(Made1) = 1
       /\ Made1[1].radius = _radius(FloatOf(TheRow[PROJ_EMISSIONS]).v)
       /\ Made1[1].project_id = TheRow[PROJ_ID]
       /\ Made1[1].project_type = TheRow[PROJ_TYPE]

\* C4: a Marker comes only from a row whose geolocation splits into exactly
\* two numeric tokens and whose emission value is non-null and parses as a
\* finite number.
C4_MarkersOnlyFromValidRows ==
    (mode \in {"row_champion", "row_benchmark"} /\ Len(Made1) > 0)
    => /\ TwoNumericTokens(TheRow[PROJ_GEO])
       /\ FiniteEmission(TheRow[PROJ_EMISSIONS])

\* x - y counted in 1/FracUnits, for finite x and y
Offset(x, y) == (x.w - y.w) * FracUnits + (x.f - y.f)

\* the jitter of a marker of the row: (lat - true_lat, lon - true_lon)
Offsets(m) ==
    <<Offset(m.lat, FloatOfStr(Partition(TheRow[PROJ_GEO].s)[1]).v),
      Offset(m.lon, FloatOfStr(Partition(TheRow[PROJ_GEO].s)[2]).v)>>

\* the offsets one draw can give
JitterRange == {Jitter(r) : r \in RandVals}

\* C10: the jitters of latitude and of longitude are independent draws
\* within the bound: for a valid row every pair of offsets in the range of
\* a draw is a possible outcome, and both offsets of every Marker made are
\* at most 1e-4 in size.
C10_JitterIndependent ==
    /\ (/\ mode = "row_champion" /\ pc = "start"
        /\ MarkerColumns \subseteq col_idx(query)
        /\ TwoNumericTokens(TheRow[PROJ_GEO])
        /\ NumericEmission(TheRow[PROJ_EMISSIONS]))
       => \A a \in JitterRange, b \in JitterRange :
            ENABLED (CallProcessRow /\ Len(markers') = 1
                     /\ Offsets(markers'[1]) = <<a, b>>)
    /\ (mode \in {"row_champion", "row_benchmark"} /\ Len(Made1) > 0)
       => \A i \in 1..2 :
            /\ Offsets(Made1[1])[i] <= JitterBound
            /\ Offsets(Made1[1])[i] >= 0 - JitterBound

(***************************************************************************)
(* Properties of build_filter_query (SpecQuery).                           *)
(***************************************************************************)
\* C7: with only a sources list of n >= 1 values the query has exactly one
\* WHERE fragment, a case-insensitive IN list on the source column with n
\* placeholders, and the parameters are the n sources in order; with no
\* sources (or an empty list) there is no WHERE clause and no parameter.
C7_SourcesOnly ==
    (/\ mode = "query" /\ pc = "built"
     /\ filters.countries = Absent /\ filters.project_types = Absent)
    => IF filters.sources.present /\ Len(filters.sources.vals) > 0
       THEN /\ query.has_where
            /\ query.where_conditions =
                 <<[column |-> PROJ_SOURCE, op |-> "IN",
                    placeholders |-> Len(filters.sources.vals),
                    collate |-> "NOCASE"]>>
            /\ query.params = filters.sources.vals
       ELSE /\ ~query.has_where
            /\ query.where_conditions = <<>>
            /\ query.params = <<>>

\* the query built for FILTERS_TO_TEST
C7_Witness ==
    /\ mode = "query" /\ pc = "built"
    /\ filters = FILTERS_TO_TEST
    /\ query.has_where
    /\ Len(query.params) = 2

\* the non-empty filters in predicate order, each with its column
GivenFilters ==
    (IF Given(filters.sources) THEN <<<<PROJ_SOURCE, filters.sources.vals>>>> ELSE <<>>)
    \o (IF Given(filters.countries)
        THEN <<<<PROJ_COUNTRY, filters.countries.vals>>>> ELSE <<>>)
    \o (IF Given(filters.project_types)
        THEN <<<<PROJ_TYPE, filters.project_types.vals>>>> ELSE <<>>)

RECURSIVE Flatten(_)
Flatten(lists) ==
    IF lists = <<>> THEN <<>> ELSE Head(lists)[2] \o Flatten(Tail(lists))

\* C8: every non-empty filter (sources, countries, project types) adds one
\* case-insensitive membership predicate on its own column with one
\* parameter per value; the fragments are as many as the non-empty filters
\* and the parameters are all the filter values in predicate order.
C8_OnePredicatePerFilter ==
    (mode = "query" /\ pc = "built")
    => /\ Len(query.where_conditions) = Len(GivenFilters)
       /\ \A i \in 1..Len(GivenFilters) :
            /\ i <= Len(query.where_conditions)
            /\ query.where_conditions[i].column = GivenFilters[i][1]
            /\ query.where_conditions[i].placeholders = Len(GivenFilters[i][2])
       /\ query.params = Flatten(GivenFilters)

(***************************************************************************)
(* Properties of _radius (SpecRadius).                                     *)
(***************************************************************************)
\* e < w + f4/10000 for a number e that is not nan
Below(e, w, f4) ==
    CASE e.k = "ninf" -> TRUE
      [] e.k = "inf" -> FALSE
      [] OTHER -> e.w < w \/ (e.w = w /\ e.f < f4 * JitterBound)

\* the band the table of thresholds gives e
Band(e) ==
    IF Below(e, 51126, 0) THEN 1000
    ELSE IF Below(e, 235483, 5677) THEN 1667
    ELSE IF Below(e, 1212860, 6667) THEN 2333
    ELSE 4000

\* e1 <= e2 for numbers that are not nan
AtMost(e1, e2) ==
    \/ e1.k = "ninf" \/ e2.k = "inf"
    \/ /\ e1.k = "fin" /\ e2.k = "fin"
       /\ (e1.w < e2.w \/ (e1.w = e2.w /\ e1.f <= e2.f))

\* C5: _radius gives 10.0 below 51126, 16.67 from 51126 to below
\* 235483.5677, 23.33 from there to below 1212860.6667 and 40.0 from there
\* on, so a threshold itself is in the upper band; it always gives one of
\* the four bands, never decreases as e grows, and the two _radius
\* functions agree on every input.
C5_RadiusBands ==
    (mode = "radius" /\ rad.champion # NotCalled /\ rad.benchmark # NotCalled)
    => /\ \A i \in 1..2 :
            /\ rad.champion[i] \in {1000, 1667, 2333, 4000}
            /\ emis[i].k # "nan" => rad.champion[i] = Band(emis[i])
            /\ rad.benchmark[i] = rad.champion[i]
       /\ (emis[1].k # "nan" /\ emis[2].k # "nan" /\ AtMost(emis[1], emis[2]))
            => rad.champion[1] <= rad.champion[2]

\* both functions called at the first threshold and just below it
C5_Witness ==
    /\ mode = "radius"
    /\ emis = <<Num(51125, 9999), Num(51126, 0)>>
    /\ rad.champion = <<1000, 1667>>
    /\ rad.benchmark = <<1000, 1667>>
====
